---- MODULE Spec2Model ----
(***************************************************************************)
(* A model of notebooks/Diffusion-model.ipynb: a one-dimensional FTCS      *)
(* diffusion run on a regular grid with a step-function initial profile    *)
(* and fixed boundary values.                                              *)
(*                                                                         *)
(* Numbers.  The notebook computes in binary64.  Here every real is an     *)
(* exact rational <<n, d>> in lowest terms with d > 0.  Within the bounds  *)
(* below every value of the field is a dyadic rational p / 2^e with a      *)
(* numerator far below 2^53, which binary64 represents exactly, so no      *)
(* operation on the field rounds and the exact arithmetic is the           *)
(* arithmetic the notebook performs.  (dt is the one inexact value: 1/800  *)
(* is rounded once, and 100 * dt rounds back to exactly 0.125, so          *)
(* D * dt / dx**2 is exactly 0.5 in binary64 as it is here.)               *)
(*                                                                         *)
(* Indices.  Python index i of an array is index i + 1 of the sequence.    *)
(***************************************************************************)
EXTENDS Integers, Sequences, FiniteSets, TLC

VARIABLES Lx, x, nx, C, C0, nt, dt, k, pc

vars == <<Lx, x, nx, C, C0, nt, dt, k, pc>>

(***************************************************************************)
(* Bounds of the model (the notebook runs Lx = 300, nt = 5000).            *)
(***************************************************************************)
MaxLx == 6
MaxNt == 12
MaxFieldLx == 3
MaxFieldNt == 3
MaxHalving == 1

(***************************************************************************)
(* Exact rational arithmetic                                               *)
(***************************************************************************)
\* The one element of a singleton set.  {e : a \in {p}} evaluates the operand
\* p once and binds a to its value; the operations below take their operands
\* this way.
The(S) == CHOOSE v \in S : TRUE

Abs(n) == IF n < 0 THEN -n ELSE n

RECURSIVE Gcd(_, _)
Gcd(a, b) ==
    The({IF bv = 0 THEN av ELSE Gcd(bv, av % bv) : av \in {a}, bv \in {b}})

Lcm(a, b) == The({(av \div Gcd(av, bv)) * bv : av \in {a}, bv \in {b}})

Norm(n, d) ==
    The({LET g == Gcd(Abs(nv), Abs(dv))
             s == IF dv < 0 THEN -1 ELSE 1
         IN  <<(s * nv) \div g, (s * dv) \div g>> : nv \in {n}, dv \in {d}})

Rat(n) == <<n, 1>>

RAdd(p, q) ==
    The({LET m == Lcm(a[2], b[2])
         IN  Norm(a[1] * (m \div a[2]) + b[1] * (m \div b[2]), m) :
         a \in {p}, b \in {q}})

RNeg(p) == The({<<-a[1], a[2]>> : a \in {p}})

RSub(p, q) == RAdd(p, RNeg(q))

RMul(p, q) ==
    The({LET g1 == Gcd(Abs(a[1]), b[2])
             g2 == Gcd(Abs(b[1]), a[2])
         IN  Norm((a[1] \div g1) * (b[1] \div g2), (a[2] \div g2) * (b[2] \div g1)) :
         a \in {p}, b \in {q}})

RDiv(p, q) == RMul(p, The({Norm(b[2], b[1]) : b \in {q}}))

RLeq(p, q) ==
    The({LET m == Lcm(a[2], b[2])
         IN  a[1] * (m \div a[2]) <= b[1] * (m \div b[2]) :
         a \in {p}, b \in {q}})

RLess(p, q) == The({RLeq(a, b) /\ a # b : a \in {p}, b \in {q}})

RAbs(p) == The({<<Abs(a[1]), a[2]>> : a \in {p}})

\* ceil(p) for a rational p
RCeil(p) == The({-((-a[1]) \div a[2]) : a \in {p}})

(***************************************************************************)
(* Model parameters (cells dcce3980, 65fa29c2, cfb8459a)                   *)
(***************************************************************************)
D == 100
dx == <<1, 2>>
C_left == 500
C_right == 0

\* np.arange(start, stop, step): ceil((stop - start) / step) points
\* start + i * step
Arange(start, stop, step) ==
    LET n == RCeil(RDiv(RSub(stop, start), step))
    IN  [j \in 1..(IF n > 0 THEN n ELSE 0) |-> RAdd(start, RMul(Rat(j - 1), step))]

\* an initial profile whose left part stops short of the midpoint:
\* C[x < Lx/2] = C_left
InitialFieldStrictLeft(xs, L) ==
    LET half == RDiv(Rat(L), Rat(2))
    IN  [j \in 1..Len(xs) |-> IF RLess(xs[j], half) THEN Rat(C_left) ELSE Rat(0)]

\* C = np.zeros_like(x); C[x <= Lx/2] = C_left; C[x > Lx/2] = C_right
InitialField(xs, L) ==
    LET zeros == [j \in 1..Len(xs) |-> Rat(0)]
        half  == RDiv(Rat(L), Rat(2))
        c1    == [j \in 1..Len(xs) |->
                    IF RLeq(xs[j], half) THEN Rat(C_left) ELSE zeros[j]]
    IN  [j \in 1..Len(xs) |->
            IF RLess(half, xs[j]) THEN Rat(C_right) ELSE c1[j]]

\* a time step that leaves out the stability factor: dt = dx ** 2 / D
TimeStepNoHalf(h, d) == RDiv(RMul(h, h), Rat(d))

\* dt = 0.5 * dx ** 2 / D
TimeStep(h, d) == RDiv(RMul(<<1, 2>>, RMul(h, h)), Rat(d))

(***************************************************************************)
(* The loop body: C[1:-1] += D * dt/dx ** 2 * (C[:-2] - 2*C[1:-1] + C[2:]) *)
(***************************************************************************)
\* Python c[a:b] for 0 <= a, b <= len(c)
Slice(c, a, b) == [j \in 1..(IF b > a THEN b - a ELSE 0) |-> c[a + j]]

VAdd(u, v) == [j \in DOMAIN u |-> RAdd(u[j], v[j])]
VSub(u, v) == [j \in DOMAIN u |-> RSub(u[j], v[j])]
VScale(s, u) == [j \in DOMAIN u |-> RMul(s, u[j])]

\* a diffusion number clamped to the stability limit: min(D * dt/dx ** 2, 0.5)
DiffusionNumberClamped(d, tau, h) ==
    LET r == RDiv(RMul(Rat(d), tau), RMul(h, h))
    IN  IF RLeq(r, <<1, 2>>) THEN r ELSE <<1, 2>>

\* D * dt/dx ** 2, evaluated left to right with ** binding tightest
DiffusionNumber(d, tau, h) == RDiv(RMul(Rat(d), tau), RMul(h, h))

\* a right-hand side that leaves out the factor 2: C[:-2] - C[1:-1] + C[2:]
IncrementNoFactorTwo(c, r) ==
    LET n == Len(c)
    IN  VScale(r, VAdd(VSub(Slice(c, 0, n - 2), Slice(c, 1, n - 1)),
                       Slice(c, 2, n)))

\* a right-hand side whose left-neighbour slice is off by one:
\* C[1:-1] - 2*C[1:-1] + C[2:]
IncrementShiftedLeftSlice(c, r) ==
    LET n == Len(c)
    IN  VScale(r, VAdd(VSub(Slice(c, 1, n - 1), VScale(Rat(2), Slice(c, 1, n - 1))),
                       Slice(c, 2, n)))

\* a right-hand side with the sign of the centre term flipped:
\* C[:-2] + 2*C[1:-1] + C[2:]
IncrementWrongSign(c, r) ==
    LET n == Len(c)
    IN  VScale(r, VAdd(VAdd(Slice(c, 0, n - 2), VScale(Rat(2), Slice(c, 1, n - 1))),
                       Slice(c, 2, n)))

\* the right-hand side, evaluated into a temporary before anything is written
Increment(c, r) ==
    LET n == Len(c)
        lo == IF n >= 2 THEN n - 2 ELSE 0
        hi == IF n >= 1 THEN n - 1 ELSE 0
        left  == Slice(c, 0, lo)
        mid   == Slice(c, IF n >= 1 THEN 1 ELSE 0, hi)
        right == Slice(c, IF n >= 2 THEN 2 ELSE n, n)
    IN  VScale(r, VAdd(VSub(left, VScale(Rat(2), mid)), right))

\* the in-place add into the view C[1:-1], element by element
RECURSIVE IAdd(_, _, _)
IAdd(c, inc, j) ==
    The({IF j > Len(iv) THEN cv
         ELSE IAdd([cv EXCEPT ![j + 1] = RAdd(cv[j + 1], iv[j])], iv, j + 1) :
         cv \in {c}, iv \in {inc}})

\* an element-by-element loop over one array: index i reads the value
\* just written at index i - 1
RECURSIVE SweepFrom(_, _, _)
SweepFrom(c, r, j) ==
    The({IF j >= Len(cv) THEN cv
         ELSE SweepFrom([cv EXCEPT ![j] =
                 RAdd(cv[j], RMul(r, RAdd(RSub(cv[j - 1], RMul(Rat(2), cv[j])),
                                          cv[j + 1])))],
                 r, j + 1) : cv \in {c}})

StepSequentialInPlace(c, r) == SweepFrom(c, r, 2)

\* a step that also copies the first interior value into index 0
\* (a zero-gradient left boundary)
StepZeroGradientLeft(c, r) ==
    LET s == IAdd(c, Increment(c, r), 1) IN [s EXCEPT ![1] = s[2]]

Step(c, r) == IAdd(c, Increment(c, r), 1)

(***************************************************************************)
(* The run                                                                 *)
(***************************************************************************)
Setup(L, n, tau) ==
    /\ Lx = L
    /\ x = Arange(Rat(0), Rat(L), dx)
    /\ nx = Len(x)
    /\ nt = n
    /\ dt = tau
    /\ k = 0
    /\ pc = "loop"

Init ==
    \E L \in 2..MaxLx, n \in 0..MaxNt :
        /\ Setup(L, n, TimeStep(dx, D))
        /\ C = InitialField(x, Lx)
        /\ C0 = C

\* The stepping operation taken as a function of its inputs: any field over
\* the grid whose elements are C_left or C_right (the update is linear in the
\* field, and these fields span all of them), and a time step that is the
\* notebook's or a binary fraction of it.
InitField ==
    \E L \in 2..MaxFieldLx, h \in 0..MaxHalving :
        /\ Setup(L, MaxFieldNt, RDiv(TimeStep(dx, D), Rat(2 ^ h)))
        /\ C \in [1..nx -> {Rat(C_left), Rat(C_right)}]
        /\ C0 = C

\* The notebook run with the time step doubled: dt = 2 * (0.5 * dx ** 2 / D)
InitDoubled ==
    \E L \in 2..MaxLx, n \in 0..MaxNt :
        /\ Setup(L, n, RMul(Rat(2), TimeStep(dx, D)))
        /\ C = InitialField(x, Lx)
        /\ C0 = C

\* a loop that runs once more than asked: for t in range(0, nt + 1)
LoopIterationOneMore ==
    /\ pc = "loop"
    /\ k < nt + 1
    /\ C' = Step(C, DiffusionNumber(D, dt, dx))
    /\ k' = k + 1
    /\ UNCHANGED <<Lx, x, nx, C0, nt, dt, pc>>

\* one iteration of: for t in range(0, nt)
LoopIteration ==
    /\ pc = "loop"
    /\ k < nt
    /\ C' = Step(C, DiffusionNumber(D, dt, dx))
    /\ k' = k + 1
    /\ UNCHANGED <<Lx, x, nx, C0, nt, dt, pc>>

\* range(0, nt) is exhausted
LoopExit ==
    /\ pc = "loop"
    /\ k >= nt
    /\ pc' = "done"
    /\ UNCHANGED <<Lx, x, nx, C, C0, nt, dt, k>>

Next == LoopIteration \/ LoopExit

Spec == Init /\ [][Next]_vars

\* The loop is the only code of the cell and runs to completion.
FairSpec == Spec /\ WF_vars(Next)

SpecField == InitField /\ [][Next]_vars

SpecDoubled == InitDoubled /\ [][Next]_vars

(***************************************************************************)
(* Quantities the properties speak of                                      *)
(***************************************************************************)
RECURSIVE SumFrom(_, _)
SumFrom(c, j) == IF j > Len(c) THEN Rat(0) ELSE RAdd(c[j], SumFrom(c, j + 1))

\* total mass: the sum of the field over all indices
Mass(c) == SumFrom(c, 1)

RMax(p, q) == IF RLeq(p, q) THEN q ELSE p
RMin(p, q) == IF RLeq(p, q) THEN p ELSE q

RECURSIVE MaxFrom(_, _)
MaxFrom(c, j) == IF j >= Len(c) THEN c[j] ELSE RMax(c[j], MaxFrom(c, j + 1))

RECURSIVE MinFrom(_, _)
MinFrom(c, j) == IF j >= Len(c) THEN c[j] ELSE RMin(c[j], MinFrom(c, j + 1))

MaxOf(c) == MaxFrom(c, 1)
MinOf(c) == MinFrom(c, 1)
MaxAbs(c) == MaxOf([j \in 1..Len(c) |-> RAbs(c[j])])

NonIncreasing(c) == \A j \in 1..(Len(c) - 1) : RLeq(c[j + 1], c[j])

WithinInitialExtremes(c, c0) ==
    \A j \in 1..Len(c) : RLeq(MinOf(c0), c[j]) /\ RLeq(c[j], MaxOf(c0))

Half == <<1, 2>>

\* C[i] + r * (C[i-1] - 2*C[i] + C[i+1]) at sequence index j, from field c
Stencil(c, r, j) ==
    RAdd(c[j], RMul(r, RAdd(RSub(c[j - 1], RMul(Rat(2), c[j])), c[j + 1])))

\* a double-buffered stepper: every interior value goes into a fresh array,
\* computed from the pre-step field, and the fresh array replaces the field
DoubleBufferedStep(c, r) ==
    [j \in 1..Len(c) |-> IF 1 < j /\ j < Len(c) THEN Stencil(c, r, j) ELSE c[j]]

RECURSIVE DoubleBufferedRun(_, _, _)
DoubleBufferedRun(c, r, n) ==
    The({IF n = 0 THEN cv ELSE DoubleBufferedRun(DoubleBufferedStep(cv, r), r, n - 1) :
         cv \in {c}})

RECURSIVE StepRun(_, _, _)
StepRun(c, r, n) ==
    The({IF n = 0 THEN cv ELSE StepRun(Step(cv, r), r, n - 1) : cv \in {c}})

(***************************************************************************)
(* Properties of the stepping operation on any field (SpecField)           *)
(***************************************************************************)
\* C1: after any number of steps the two boundary elements C[0] and
\* C[nx-1] equal their initial values; the step never writes them.
BoundaryFixed == C[1] = C0[1] /\ C[nx] = C0[nx]

BoundaryFixedWitness == k >= 2 /\ C # C0 /\ C[2] # C0[2] /\ C[nx - 1] # C0[nx - 1]

\* C2: one step gives C'[i] = C[i] + r * (C[i-1] - 2*C[i] + C[i+1]) at every
\* interior index, all reads being pre-step values, with r = D*dt/dx^2; and
\* with the notebook's dt (0.00125 = 1/800) r is exactly 1/2.
StencilUpdate ==
    [][k' = k + 1 =>
        LET r == RDiv(RMul(Rat(D), dt), RMul(dx, dx))
        IN  /\ \A i \in 1..(nx - 2) :
                 C'[i + 1] = RAdd(C[i + 1],
                               RMul(r, RAdd(RSub(C[i], RMul(Rat(2), C[i + 1])), C[i + 2])))
            /\ (dt = <<1, 800>> => r = <<1, 2>>)]_vars

StencilUpdateWitness == k >= 1 /\ dt = <<1, 800>> /\ C # C0

\* C5: with r <= 1/2 every element stays within the extremes of the initial
\* field after any number of steps.
NoNewExtremes ==
    RLeq(RDiv(RMul(Rat(D), dt), RMul(dx, dx)), Half) => WithinInitialExtremes(C, C0)

NoNewExtremesWitness ==
    /\ k >= 1
    /\ DiffusionNumber(D, dt, dx) = Half
    /\ \E j \in 1..nx : RLess(MinOf(C0), C[j]) /\ RLess(C[j], MaxOf(C0))

\* C7: for every field and every number of steps the in-place update gives
\* the field a double-buffered stepper gives.
InPlaceEqualsDoubleBuffered ==
    C = DoubleBufferedRun(C0, DiffusionNumber(D, dt, dx), k)

InPlaceEqualsDoubleBufferedWitness ==
    /\ k >= 2
    /\ C # C0
    /\ C # StepSequentialInPlace(StepSequentialInPlace(C0, DiffusionNumber(D, dt, dx)),
                                 DiffusionNumber(D, dt, dx))

(***************************************************************************)
(* Properties of the notebook's run (Spec)                                 *)
(***************************************************************************)
\* sequence index of the last grid point with x <= Lx/2 (Python index m
\* is MidIndex - 1)
MidIndex ==
    CHOOSE j \in 1..nx :
        /\ RLeq(x[j], RDiv(Rat(Lx), Rat(2)))
        /\ \A j2 \in (j + 1)..nx : ~RLeq(x[j2], RDiv(Rat(Lx), Rat(2)))

\* C3: from the step profile with r = 1/2, after every k >= 1 steps the
\* field is non-increasing in x over the whole domain, boundary pairs included.
MonotoneAfterSteps == k >= 1 => NonIncreasing(C)

MonotoneAfterStepsWitness ==
    /\ k >= 1
    /\ RLess(C[2], C[1])
    /\ RLess(C[nx], C[nx - 1])
    /\ \E j \in 2..(nx - 2) : RLess(C[j + 1], C[j])

\* C4 as stated: every step of the loop makes the total mass strictly smaller.
MassStrictlyDecreases ==
    [][k' = k + 1 => RLess(Mass(C'), Mass(C))]_vars

\* C4 amended: no step increases the total mass; a step leaves it unchanged
\* while the element next to the right boundary still holds C_right, and
\* makes it strictly smaller once that element is above C_right.
MassNeverIncreases ==
    [][k' = k + 1 =>
        /\ RLeq(Mass(C'), Mass(C))
        /\ (C[nx - 1] = Rat(C_right) => Mass(C') = Mass(C))
        /\ (C[nx - 1] # Rat(C_right) => RLess(Mass(C'), Mass(C)))]_vars

MassNeverIncreasesWitness ==
    /\ k >= 3
    /\ Lx >= 4
    /\ C[nx - 1] # Rat(C_right)
    /\ RLess(Mass(C), Mass(C0))

\* C8: the grid has nx = Lx/dx points x[i] = i*dx, and the initial field is
\* C_left wherever x[i] <= Lx/2 (the midpoint included) and C_right elsewhere.
GridAndInitialProfile ==
    /\ nx = 2 * Lx
    /\ Len(x) = nx /\ Len(C0) = nx
    /\ \A i \in 0..(nx - 1) :
         /\ x[i + 1] = Norm(i, 2)
         /\ C0[i + 1] = IF i <= Lx THEN <<500, 1>> ELSE <<0, 1>>

GridAndInitialProfileWitness ==
    /\ k = 0
    /\ C = C0
    /\ \E j \in 1..nx : x[j] = RDiv(Rat(Lx), Rat(2)) /\ C[j] = Rat(C_left)
    /\ C[nx] = Rat(C_right)

\* C10: after k steps every element more than k places from the
\* discontinuity still holds its initial value: C[i] = C_left for
\* i <= m - k and C[i] = C_right for i >= m + 1 + k.
FinitePropagation ==
    \A j \in 1..nx :
        /\ (j <= MidIndex - k => C[j] = Rat(C_left))
        /\ (j >= MidIndex + 1 + k => C[j] = Rat(C_right))

FinitePropagationWitness ==
    /\ k >= 1
    /\ C[MidIndex] # Rat(C_left)
    /\ MidIndex - k >= 2
    /\ MidIndex + 1 + k <= nx - 1

\* C9: the run applies the stepper exactly nt times and then stops: after k
\* iterations the field is the k-fold application of the stepper to the
\* initial profile, k never exceeds nt, the loop ends, it ends with k = nt,
\* and with nt = 0 the final field is the initial profile.
RunAppliesStepperNtTimes ==
    /\ [](/\ k <= nt
          /\ C = StepRun(C0, <<1, 2>>, k)
          /\ (pc = "done" => k = nt)
          /\ (pc = "done" /\ nt = 0 => C = C0))
    /\ <>(pc = "done")

RunAppliesStepperNtTimesWitness == pc = "done" /\ k = nt /\ nt >= 3 /\ C # C0

(***************************************************************************)
(* The run with the time step doubled (SpecDoubled)                        *)
(***************************************************************************)
OutsideInitialRange(c) ==
    \E j \in 1..Len(c) : RLess(c[j], Rat(C_right)) \/ RLess(Rat(C_left), c[j])

Oscillating(c) == ~NonIncreasing(c) /\ OutsideInitialRange(c)

\* C6: with dt doubled (r = 1) the run from the step profile reaches a field
\* that is not non-increasing and has an element outside [C_right, C_left]
\* (from the third step on at the latest), and from then on every further
\* step makes the largest |C[i]| larger.
DoubledStepOscillates ==
    /\ [](RDiv(RMul(Rat(D), dt), RMul(dx, dx)) = Rat(1))
    /\ [](k >= 3 => Oscillating(C))
    /\ [][Oscillating(C) /\ k' = k + 1 =>
            Oscillating(C') /\ RLess(MaxAbs(C), MaxAbs(C'))]_vars

DoubledStepOscillatesWitness ==
    /\ k >= 5
    /\ Oscillating(C)
    /\ RLess(RMul(Rat(4), Rat(C_left)), MaxAbs(C))

====
